---- MODULE Spec2Model ----
(***************************************************************************)
(* A model of extrabol (src/extrabol/extrabol.py): the photometry          *)
(* normalizer read_in_photometry, the distance resolution of main, the     *)
(* template fitter fit_template, the dense grid of interpolate, the        *)
(* per-epoch loop of fit_bb and the header of write_output.                *)
(*                                                                         *)
(* Numbers are fixed point.  Times are whole days, magnitudes and          *)
(* log-fluxes are in units of 0.001, uncertainties and redshifts in units *)
(* of 0.01, luminosity distances in units of 1e-5 Mpc.                     *)
(* A float that may be NaN is a record [nan, val].                         *)
(***************************************************************************)
EXTENDS Integers, Sequences, FiniteSets, TLC

VARIABLES
    pc,               \* the position of the run inside main and its callees
    \* ---- read_in_photometry
    photometry_data,  \* the rows of the input table (np.loadtxt, line 89)
    dm, redshift, start, end, snr,   \* the arguments of read_in_photometry
    phases, fluxes, wv_effs, errs, width_effs, my_filters,  \* its columns
    wv_corr, flux_corr,              \* the normalization context
    lc,               \* the returned light curve (<<>> until it is returned)
    exitMsg,          \* the argument of sys.exit, "" while the run is alive
    \* ---- main, distance resolution
    argv,             \* the command line as parsed: redshift, distance, dm
    args,             \* the argparse namespace, which main overwrites
    locals,           \* main's local variables dm and distance
    file_redshift,    \* the first header line of the input file
    \* ---- interpolate and write_output
    obs,              \* the light curve handed to interpolate, one record per row
    dense,            \* dense_fluxes: dense[j][k] is the GP query that filled the cell
    table_header,     \* the filter names of the header, in header order
    \* ---- fit_bb
    dense_lc,         \* per epoch, what curve_fit does on that epoch
    i_bb,             \* the loop index of fit_bb
    bb_last,          \* the locals T1, R1, T1_err, R1_err
    T_arr, R_arr, Terr_arr, Rerr_arr,
    \* ---- fit_template
    ft_obs,           \* the observations handed to fit_template
    k_ft,             \* how many candidate filters have been fitted
    A_opt, t_c_opt, t_s_opt, chi2,   \* the lists of fit_template
    ft_ret,           \* the returned (A, t_c, t_s, chi2), <<>> until returned
    \* ---- generate_template
    template,         \* the samples of the .npz file: time, wavelength, f_lambda
    filter_wv,        \* the filter wavelengths the template is wanted for
    temp_times, temp_wavelength, temp_f_lambda,   \* the three working arrays
    temp_f_lambda_u,  \* the rectangular grid, one row per unique time
    \* ---- main, the template selector
    mean_arg,         \* args.mean, the -m option as given
    sn_type, mean,    \* main's locals of lines 745-751
    class_chi2,       \* per template class, the chi-square fit_template returns
    loaded,           \* the template classes generate_template has loaded, in order
    gp_mean           \* the mean function handed to george.GP, <<>> before that

photVars  == <<photometry_data, dm, redshift, start, end, snr, phases, fluxes,
               wv_effs, errs, width_effs, my_filters, wv_corr, flux_corr, lc,
               exitMsg>>
distVars  == <<argv, args, locals, file_redshift>>
denseVars == <<obs, dense, table_header>>
bbVars    == <<dense_lc, i_bb, bb_last, T_arr, R_arr, Terr_arr, Rerr_arr>>
ftVars    == <<ft_obs, k_ft, A_opt, t_c_opt, t_s_opt, chi2, ft_ret>>
tmplVars  == <<template, filter_wv, temp_times, temp_wavelength, temp_f_lambda,
               temp_f_lambda_u>>
selVars   == <<mean_arg, sn_type, mean, class_chi2, loaded, gp_mean>>
vars      == <<pc, photVars, distVars, denseVars, bbVars, ftVars, tmplVars,
               selVars>>

(***************************************************************************)
(* Helpers for numpy idioms.                                               *)
(***************************************************************************)
\* np.arange(len(a)) as 1-based indices
Indices(a) == [i \in 1..Len(a) |-> i]

\* a[gis] for an index array gis (numpy fancy indexing)
Take(a, gis) == [i \in 1..Len(gis) |-> a[gis[i]]]

\* the elements of a sequence
Range(a) == {a[i] : i \in 1..Len(a)}

\* np.min / np.max of a non-empty array
MinOf(S) == CHOOSE x \in S : \A y \in S : x <= y
MaxOf(S) == CHOOSE x \in S : \A y \in S : x >= y

RECURSIVE SumSeq(_)
SumSeq(a) == IF a = <<>> THEN 0 ELSE a[1] + SumSeq(Tail(a))

\* every sequence over S of length lo..hi
SeqsOf(S, lo, hi) == UNION {[1..n -> S] : n \in lo..hi}

(***************************************************************************)
(* The unused parts of the state, held fixed by the other specifications.  *)
(***************************************************************************)
IdlePhot ==
    /\ photometry_data = <<>> /\ dm = 0 /\ redshift = 0 /\ start = 0 /\ end = 0
    /\ snr = 0 /\ phases = <<>> /\ fluxes = <<>> /\ wv_effs = <<>> /\ errs = <<>>
    /\ width_effs = <<>> /\ my_filters = <<>> /\ wv_corr = 0 /\ flux_corr = 0
    /\ lc = <<>> /\ exitMsg = ""
IdleDist  == argv = <<>> /\ args = <<>> /\ locals = <<>> /\ file_redshift = 0
IdleDense == obs = <<>> /\ dense = <<>> /\ table_header = <<>>
IdleBB    ==
    /\ dense_lc = <<>> /\ i_bb = 0 /\ bb_last = <<>>
    /\ T_arr = <<>> /\ R_arr = <<>> /\ Terr_arr = <<>> /\ Rerr_arr = <<>>
IdleFt    ==
    /\ ft_obs = <<>> /\ k_ft = 0 /\ A_opt = <<>> /\ t_c_opt = <<>>
    /\ t_s_opt = <<>> /\ chi2 = <<>> /\ ft_ret = <<>>
IdleTmpl  ==
    /\ template = <<>> /\ filter_wv = <<>> /\ temp_times = <<>>
    /\ temp_wavelength = <<>> /\ temp_f_lambda = <<>> /\ temp_f_lambda_u = <<>>
IdleSel   ==
    /\ mean_arg = <<>> /\ sn_type = <<>> /\ mean = FALSE /\ class_chi2 = <<>>
    /\ loaded = <<>> /\ gp_mean = <<>>

(***************************************************************************)
(* read_in_photometry (lines 64-167)                                       *)
(***************************************************************************)
\* The longest input table
MaxRows == 2

\* The SVO filter index of line 93, as its four columns (lines 94-97).
\* Wavelengths and widths in Angstrom, zero points in Jy.
filterIDs      == <<"Generic/Bessell.B", "Generic/Bessell.V">>
wavelengthEffs == <<4378, 5466>>
widthEffs      == <<972, 889>>
zpts_all       == <<4063, 3636>>

\* The values an input row is drawn from
RawTimes   == {1, 2, 3}
RawMags    == {18000}
RawErrs    == {25, 50}
RawFilters == Range(filterIDs) \cup {"Misc/Unknown.X"}
RawSystems == {"AB", "Vega"}
PhotRows   == [t : RawTimes, mag : RawMags, err : RawErrs, filt : RawFilters,
               sys : RawSystems]
SnrVals    == {4, 5}
StartVals  == {-1, 0, 1}
EndVals    == {1, 200}
RedshiftVals == {10}

\* np.where(filterIDs == ufilt)[0] (lines 103, 117)
Gind(ufilt) == SelectSeq(Indices(filterIDs), LAMBDA g : filterIDs[g] = ufilt)

\* 2.5 * log10(zpt * (1 + redshift) / 3631.00), rounded to units of 0.001
\* (the part of lines 120-122 that does not depend on the magnitude)
ZptTerm(zpt, z) ==
    CASE zpt = 3631 /\ z = 0 -> 0
      [] zpt = 3631 /\ z = 10 -> 103
      [] zpt = 4063 /\ z = 0 -> 122
      [] zpt = 4063 /\ z = 10 -> 226
      [] zpt = 3636 /\ z = 0 -> 1
      [] zpt = 3636 /\ z = 10 -> 105

\* the zero point of one datapoint (lines 114-118)
ZptOf(datapoint) ==
    IF datapoint.sys = "AB" THEN 3631 ELSE zpts_all[Gind(datapoint.filt)[1]]

\* the log-flux of one datapoint (lines 113-122): 10**(mag/-2.5) * zpt * (1+z),
\* then 2.5 * (log10(flux) - log10(3631)), which is -mag + ZptTerm
LogFlux(datapoint, d, z) == (0 - (datapoint.mag - d)) + ZptTerm(ZptOf(datapoint), z)

\* (1/errs[i]) >= snr (line 135), errs in units of 0.01; 1/0.0 is inf in numpy
SnrOkFlipped(e, s) == e # 0 /\ 100 <= s * e
SnrOk(e, s) == e = 0 \/ 100 >= s * e

\* phases[i] <= end and phases[i] >= start (line 154)
InWindowStrict(p, s, e) == p <= e /\ p > s
InWindow(p, s, e) == p <= e /\ p >= s

InitPhot ==
    /\ pc = "read_in_photometry"
    /\ photometry_data \in SeqsOf(PhotRows, 1, MaxRows)
    /\ dm = 38380
    /\ redshift \in RedshiftVals
    /\ start \in StartVals
    /\ end \in EndVals
    /\ snr \in SnrVals
    /\ phases = [i \in 1..Len(photometry_data) |-> photometry_data[i].t]
    /\ errs = [i \in 1..Len(photometry_data) |-> photometry_data[i].err]
    /\ fluxes = <<>> /\ wv_effs = <<>> /\ width_effs = <<>> /\ my_filters = <<>>
    /\ wv_corr = 0 /\ flux_corr = 0 /\ lc = <<>> /\ exitMsg = ""

\* lines 99-108 without the sys.exit: an unknown filter takes the first index entry
ResolveFiltersNoExit ==
    /\ pc = "read_in_photometry"
    /\ LET n == Len(photometry_data)
           g(i) == IF Len(Gind(photometry_data[i].filt)) = 0
                   THEN 1 ELSE Gind(photometry_data[i].filt)[1]
       IN /\ wv_effs' = [i \in 1..n |-> wavelengthEffs[g(i)]]
          /\ width_effs' = [i \in 1..n |-> widthEffs[g(i)]]
          /\ my_filters' = [i \in 1..n |-> photometry_data[i].filt]
    /\ pc' = "convert"
    /\ UNCHANGED <<photometry_data, dm, redshift, start, end, snr, phases, fluxes,
                   errs, wv_corr, flux_corr, lc, exitMsg>>
    /\ UNCHANGED <<distVars, denseVars, bbVars, ftVars,
                   tmplVars, selVars>>

\* lines 99-108: resolve every row's filter, or sys.exit at the first unknown one
ResolveFilters ==
    /\ pc = "read_in_photometry"
    /\ LET n   == Len(photometry_data)
           bad == {i \in 1..n : Len(Gind(photometry_data[i].filt)) = 0}
       IN IF bad # {}
          THEN /\ pc' = "exit"
               /\ exitMsg' = photometry_data[MinOf(bad)].filt
               /\ UNCHANGED <<wv_effs, width_effs, my_filters>>
          ELSE /\ pc' = "convert"
               /\ wv_effs' = [i \in 1..n |->
                                wavelengthEffs[Gind(photometry_data[i].filt)[1]]]
               /\ width_effs' = [i \in 1..n |->
                                   widthEffs[Gind(photometry_data[i].filt)[1]]]
               /\ my_filters' = [i \in 1..n |-> photometry_data[i].filt]
               /\ UNCHANGED exitMsg
    /\ UNCHANGED <<photometry_data, dm, redshift, start, end, snr, phases, fluxes,
                   errs, wv_corr, flux_corr, lc>>
    /\ UNCHANGED <<distVars, denseVars, bbVars, ftVars,
                   tmplVars, selVars>>

\* lines 110-130: log-fluxes, then the normalization context.  wv_corr is the
\* mean of wv_effs/(1+redshift); it and the centred wavelengths are kept as
\* numerators over n*(100+redshift), so that no rounding enters the model.
ConvertFluxes ==
    /\ pc = "convert"
    /\ LET n  == Len(photometry_data)
           fl == [i \in 1..n |-> LogFlux(photometry_data[i], dm, redshift)]
           fc == MinOf(Range(fl)) - 1000
       IN /\ wv_corr' = 100 * SumSeq(wv_effs)
          /\ flux_corr' = fc
          /\ wv_effs' = [i \in 1..n |->
                           n * (100 + redshift) * wv_effs[i] - 100 * SumSeq(wv_effs)]
          /\ fluxes' = [i \in 1..n |-> fl[i] - fc]
    /\ pc' = "snr"
    /\ UNCHANGED <<photometry_data, dm, redshift, start, end, snr, phases, errs,
                   width_effs, my_filters, lc, exitMsg>>
    /\ UNCHANGED <<distVars, denseVars, bbVars, ftVars,
                   tmplVars, selVars>>

\* lines 132-146: keep the rows at or above the signal-to-noise threshold
SnrFilter ==
    /\ pc = "snr"
    /\ LET gis == SelectSeq(Indices(phases), LAMBDA i : SnrOk(errs[i], snr))
       IN /\ phases' = Take(phases, gis)
          /\ fluxes' = Take(fluxes, gis)
          /\ wv_effs' = Take(wv_effs, gis)
          /\ errs' = Take(errs, gis)
          /\ width_effs' = Take(width_effs, gis)
          /\ my_filters' = Take(my_filters, gis)
    /\ pc' = "rebase"
    /\ UNCHANGED <<photometry_data, dm, redshift, start, end, snr, wv_corr,
                   flux_corr, lc, exitMsg>>
    /\ UNCHANGED <<distVars, denseVars, bbVars, ftVars,
                   tmplVars, selVars>>

\* the time origin of line 149
TimeOriginAllRows(ph, data) == MinOf({data[i].t : i \in 1..Len(data)})
TimeOrigin(ph, data) == MinOf(Range(ph))

\* line 149: np.min of an empty array raises ValueError
Rebase ==
    /\ pc = "rebase"
    /\ IF phases = <<>>
       THEN /\ pc' = "raised"
            /\ exitMsg' = "ValueError in read_in_photometry"
            /\ UNCHANGED phases
       ELSE /\ pc' = "window"
            /\ phases' = [i \in 1..Len(phases) |->
                            phases[i] - TimeOrigin(phases, photometry_data)]
            /\ UNCHANGED exitMsg
    /\ UNCHANGED <<photometry_data, dm, redshift, start, end, snr, fluxes, wv_effs,
                   errs, width_effs, my_filters, wv_corr, flux_corr, lc>>
    /\ UNCHANGED <<distVars, denseVars, bbVars, ftVars,
                   tmplVars, selVars>>

\* lines 151-167: keep the rows inside [start, end], stack and return
WindowFilter ==
    /\ pc = "window"
    /\ LET gis == SelectSeq(Indices(phases),
                            LAMBDA i : InWindow(phases[i], start, end))
       IN /\ phases' = Take(phases, gis)
          /\ fluxes' = Take(fluxes, gis)
          /\ wv_effs' = Take(wv_effs, gis)
          /\ errs' = Take(errs, gis)
          /\ width_effs' = Take(width_effs, gis)
          /\ my_filters' = Take(my_filters, gis)
          /\ lc' = <<Take(phases, gis), Take(fluxes, gis), Take(wv_effs, gis),
                     Take(errs, gis), Take(width_effs, gis)>>
    /\ pc' = "returned"
    /\ UNCHANGED <<photometry_data, dm, redshift, start, end, snr, wv_corr,
                   flux_corr, exitMsg>>
    /\ UNCHANGED <<distVars, denseVars, bbVars, ftVars,
                   tmplVars, selVars>>

\* main, lines 785-791: the returned light curve goes on to interpolate
\* whatever its length
CallInterpolate ==
    /\ pc = "returned"
    /\ pc' = "interpolate"
    /\ UNCHANGED <<photVars, distVars, denseVars, bbVars, ftVars,
                   tmplVars, selVars>>

NextPhot ==
    \/ ResolveFilters
    \/ ConvertFluxes
    \/ SnrFilter
    \/ Rebase
    \/ WindowFilter
    \/ CallInterpolate

InitPhotRun == InitPhot /\ IdleDist /\ IdleDense /\ IdleBB /\ IdleFt
               /\ IdleTmpl /\ IdleSel

SpecPhot == InitPhotRun /\ [][NextPhot]_vars

(***************************************************************************)
(* Claims about read_in_photometry.  What the function should return is    *)
(* computed here from the input table alone.                               *)
(***************************************************************************)
AfterSnr    == pc \in {"rebase", "raised", "window", "returned", "interpolate"}
AfterRebase == pc \in {"window", "returned", "interpolate"}
Returned    == pc \in {"returned", "interpolate"}

\* the input rows at or above the threshold, in input order
PassRows == SelectSeq(Indices(photometry_data),
                      LAMBDA k : 100 >= snr * photometry_data[k].err)
\* the smallest raw time among them
PassOrigin == MinOf({photometry_data[PassRows[i]].t : i \in 1..Len(PassRows)})
\* those of them whose time, counted from PassOrigin, is inside the window
KeptRows == SelectSeq(PassRows,
                      LAMBDA k : /\ photometry_data[k].t - PassOrigin >= start
                                 /\ photometry_data[k].t - PassOrigin <= end)
\* the six columns input row k should contribute, given the time origin off
ColumnsOf(k, off) ==
    LET r == photometry_data[k]
        g == CHOOSE j \in 1..Len(filterIDs) : filterIDs[j] = r.filt
    IN <<r.t - off,
         LogFlux(r, dm, redshift) - flux_corr,
         Len(photometry_data) * (100 + redshift) * wavelengthEffs[g] - wv_corr,
         r.err, widthEffs[g], r.filt>>
\* the six columns at position i of the current state
ColumnsAt(i) ==
    <<phases[i], fluxes[i], wv_effs[i], errs[i], width_effs[i], my_filters[i]>>
\* the strictly increasing maps from m positions into the n input rows
IncreasingMaps(m, n) ==
    {g \in [1..m -> 1..n] : \A a, b \in 1..m : a < b => g[a] < g[b]}

\* C1: once the signal-to-noise filter has run, every remaining observation
\* has 1/uncertainty >= snr, the six columns have one length, and row i of
\* every column comes from one and the same input row, in input order.
C1_SnrFiltered ==
    AfterSnr =>
        /\ \A i \in 1..Len(errs) : 100 >= snr * errs[i]
        /\ Len(fluxes) = Len(phases) /\ Len(wv_effs) = Len(phases)
        /\ Len(errs) = Len(phases) /\ Len(width_effs) = Len(phases)
        /\ Len(my_filters) = Len(phases)
        /\ \E g \in IncreasingMaps(Len(phases), Len(photometry_data)) :
               \A i \in 1..Len(phases) :
                   ColumnsAt(i) =
                       ColumnsOf(g[i], IF AfterRebase THEN PassOrigin ELSE 0)

\* a row below the threshold was dropped and a row was kept
C1_Witness ==
    /\ pc = "returned"
    /\ Len(phases) >= 1
    /\ Len(PassRows) < Len(photometry_data)

\* C2 as stated: whenever an observation is returned, every returned time is
\* >= 0 and the smallest returned time is exactly 0.
C2_MinTimeZero ==
    (Returned /\ Len(lc[1]) > 0) =>
        /\ \A i \in 1..Len(lc[1]) : lc[1][i] >= 0
        /\ MinOf(Range(lc[1])) = 0

\* C2 amended: whenever an observation is returned, every returned time is
\* >= 0 and inside [start, end]; the smallest returned time is exactly 0 when
\* start <= 0, and otherwise it is the smallest rebased time >= start.
C2_TimesRebased ==
    (Returned /\ Len(lc[1]) > 0) =>
        /\ \A i \in 1..Len(lc[1]) :
               lc[1][i] >= 0 /\ lc[1][i] >= start /\ lc[1][i] <= end
        /\ start <= 0 => MinOf(Range(lc[1])) = 0

\* two observations are returned with start <= 0, after a row was dropped
C2_Witness ==
    /\ pc = "returned"
    /\ start <= 0
    /\ Len(lc[1]) >= 1
    /\ Len(lc[1]) < Len(photometry_data)
    /\ \E k \in 1..Len(photometry_data) : photometry_data[k].t > PassOrigin

C8_UnknownFilterExits ==
    LET bad == {k \in 1..Len(photometry_data) :
                    \A j \in 1..Len(filterIDs) :
                        filterIDs[j] # photometry_data[k].filt}
    IN /\ bad # {} =>
           /\ pc \in {"read_in_photometry", "exit"}
           /\ fluxes = <<>> /\ my_filters = <<>> /\ lc = <<>>
           /\ Len(phases) = Len(photometry_data)
           /\ pc = "exit" =>
                  /\ exitMsg = photometry_data[MinOf(bad)].filt
       /\ bad = {} => pc # "exit"

\* the run has exited on the second row's filter; the first row resolved
C8_Witness ==
    /\ pc = "exit"
    /\ Len(photometry_data) = 2
    /\ Len(Gind(photometry_data[1].filt)) > 0
    /\ Len(Gind(photometry_data[2].filt)) = 0

\* C9: the time origin is the smallest raw time among the rows that pass the
\* threshold, and the window is tested on the times counted from it: after
\* the rebase the times are those of the passing rows minus that origin, and
\* the returned rows are the passing rows whose rebased time is in [start, end].
C9_SnrBeforeRebase ==
    /\ AfterRebase =>
           /\ Len(PassRows) > 0
           /\ pc = "window" =>
                  phases = [i \in 1..Len(PassRows) |->
                              photometry_data[PassRows[i]].t - PassOrigin]
    /\ Returned =>
           /\ lc[1] = [i \in 1..Len(KeptRows) |->
                         photometry_data[KeptRows[i]].t - PassOrigin]
           /\ my_filters = [i \in 1..Len(KeptRows) |->
                              photometry_data[KeptRows[i]].filt]

\* a row below the threshold is earlier than every passing row, and a row
\* is returned
C9_Witness ==
    /\ pc = "returned"
    /\ Len(lc[1]) >= 1
    /\ \E k \in 1..Len(photometry_data) :
           /\ 100 < snr * photometry_data[k].err
           /\ photometry_data[k].t < PassOrigin

(***************************************************************************)
(* main, lines 753-785: redshift, luminosity distance and distance modulus *)
(***************************************************************************)
\* the defaults argparse gives the three options when the user leaves them out
RedshiftUnset == 100
DistanceUnset == 1
DmUnset       == 0
\* the dm parameter of main, as __main__ passes it
MainDm        == 38380

\* astropy's Planck13 cosmology on a grid of redshifts, rounded:
\* cosmo.luminosity_distance(z).value and cosmo.distmod(z).value
CosmoGrid == {10, 50}
luminosity_distance(z) == CASE z = 10 -> 47600000 [] z = 50 -> 291800000
distmod(z)             == CASE z = 10 -> 38380 [] z = 50 -> 42330
\* z_at_value(func, value): the redshift at which func takes the value
z_at_luminosity_distance(d) == CHOOSE z \in CosmoGrid : luminosity_distance(z) = d
z_at_distmod(m)             == CHOOSE z \in CosmoGrid : distmod(z) = m

\* what the user and the file's first header line may give
UserRedshifts == {RedshiftUnset, 0} \cup CosmoGrid
UserDistances == {DistanceUnset} \cup {luminosity_distance(z) : z \in CosmoGrid}
UserDms       == {DmUnset} \cup {distmod(z) : z \in CosmoGrid}
FileRedshifts == {0} \cup CosmoGrid

\* a local variable of main that no assignment has reached yet
Unbound == [bound |-> FALSE, val |-> 0]
Bound(v) == [bound |-> TRUE, val |-> v]

InitDist ==
    /\ pc = "main"
    /\ argv \in [redshift : UserRedshifts, distance : UserDistances, dm : UserDms]
    /\ args = argv
    /\ locals = [dm |-> Bound(MainDm), distance |-> Unbound]
    /\ file_redshift \in FileRedshifts

\* lines 753-762: an unset redshift is read from the file's first line
\* (the reddening read next to it is used nowhere and is left out)
ReadHeader ==
    /\ pc = "main"
    /\ args' = IF args.redshift = RedshiftUnset
               THEN [args EXCEPT !.redshift = file_redshift]
               ELSE args
    /\ pc' = "resolve"
    /\ UNCHANGED <<argv, locals, file_redshift>>
    /\ UNCHANGED <<photVars, denseVars, bbVars, ftVars,
                   tmplVars, selVars>>

\* line 764
AnySupplied ==
    args.redshift # 0 \/ args.distance # DistanceUnset \/ args.dm # DmUnset

\* lines 765-767
ResolveFromRedshift ==
    /\ pc = "resolve" /\ AnySupplied
    /\ args.redshift # 0
    /\ args' = [args EXCEPT !.distance = luminosity_distance(args.redshift),
                            !.dm = distmod(args.redshift)]
    /\ pc' = "resolved"
    /\ UNCHANGED <<argv, locals, file_redshift>>
    /\ UNCHANGED <<photVars, denseVars, bbVars, ftVars,
                   tmplVars, selVars>>

\* lines 768-770: the right-hand side reads main's local distance, which is
\* assigned only at line 773; an unbound local raises UnboundLocalError
ResolveFromDistance ==
    /\ pc = "resolve" /\ AnySupplied
    /\ args.redshift = 0 /\ args.distance # DistanceUnset
    /\ IF locals.distance.bound
       THEN /\ args' = [args EXCEPT !.redshift =
                            z_at_luminosity_distance(locals.distance.val)]
            /\ locals' = [locals EXCEPT !.dm = Bound(distmod(args'.redshift))]
            /\ pc' = "resolved"
       ELSE /\ pc' = "raised"
            /\ UNCHANGED <<args, locals>>
    /\ UNCHANGED <<argv, file_redshift>>
    /\ UNCHANGED <<photVars, denseVars, bbVars, ftVars,
                   tmplVars, selVars>>

\* lines 771-773: the redshift comes from main's parameter dm, and the
\* distance goes to main's local distance
ResolveFromDm ==
    /\ pc = "resolve" /\ AnySupplied
    /\ args.redshift = 0 /\ args.distance = DistanceUnset
    /\ args' = [args EXCEPT !.redshift = z_at_distmod(locals.dm.val)]
    /\ locals' = [locals EXCEPT !.distance =
                      Bound(luminosity_distance(args'.redshift))]
    /\ pc' = "resolved"
    /\ UNCHANGED <<argv, file_redshift>>
    /\ UNCHANGED <<photVars, denseVars, bbVars, ftVars,
                   tmplVars, selVars>>

\* lines 774-775: nothing supplied, absolute magnitudes
AssumeAbsolute ==
    /\ pc = "resolve" /\ ~AnySupplied
    /\ pc' = "resolved"
    /\ UNCHANGED <<distVars, photVars, denseVars, bbVars, ftVars,
                   tmplVars, selVars>>

\* line 785: read_in_photometry(args.snfile, args.dm, args.redshift, ...)
CallReadInPhotometry ==
    /\ pc = "resolved"
    /\ dm' = args.dm
    /\ redshift' = args.redshift
    /\ pc' = "read_in_photometry"
    /\ UNCHANGED <<photometry_data, start, end, snr, phases, fluxes, wv_effs, errs,
                   width_effs, my_filters, wv_corr, flux_corr, lc, exitMsg>>
    /\ UNCHANGED <<distVars, denseVars, bbVars, ftVars,
                   tmplVars, selVars>>

NextDist ==
    \/ ReadHeader
    \/ ResolveFromRedshift
    \/ ResolveFromDistance
    \/ ResolveFromDm
    \/ AssumeAbsolute
    \/ CallReadInPhotometry

InitDistRun == InitDist /\ IdlePhot /\ IdleDense /\ IdleBB /\ IdleFt
               /\ IdleTmpl /\ IdleSel

SpecDist == InitDistRun /\ [][NextDist]_vars

\* C10 as stated: when exactly one of redshift, distance and distance
\* modulus is supplied (the redshift being 0 unless it is the supplied one),
\* the run reaches read_in_photometry, and it passes the redshift and the
\* distance modulus that belong to the supplied value.
C10_OneOfThreeResolves ==
    LET z0 == IF argv.redshift = RedshiftUnset THEN file_redshift ELSE argv.redshift
        onlyZ == z0 # 0 /\ argv.distance = DistanceUnset /\ argv.dm = DmUnset
        onlyD == z0 = 0 /\ argv.distance # DistanceUnset /\ argv.dm = DmUnset
        onlyM == z0 = 0 /\ argv.distance = DistanceUnset /\ argv.dm # DmUnset
    IN /\ (onlyZ \/ onlyD \/ onlyM) => pc # "raised"
       /\ (pc = "read_in_photometry" /\ onlyZ) =>
              redshift = z0 /\ dm = distmod(z0)
       /\ (pc = "read_in_photometry" /\ onlyD) =>
              /\ redshift = z_at_luminosity_distance(argv.distance)
              /\ dm = distmod(z_at_luminosity_distance(argv.distance))
       /\ (pc = "read_in_photometry" /\ onlyM) =>
              redshift = z_at_distmod(argv.dm) /\ dm = argv.dm

(***************************************************************************)
(* interpolate (lines 364-451) and write_output (lines 651-708): which GP  *)
(* query fills which cell of the dense light curve, and which name heads   *)
(* which column of the output table.  The GP itself is george's; a         *)
(* prediction is represented by the (time, wavelength) point it is made at.*)
(***************************************************************************)
\* The longest light curve handed to interpolate
MaxObs == 3

\* the tolerance of line 22, in the wavelength unit of this section:
\* lc[:,2] is in kilo-Angstrom and is kept here in units of 0.00005
epsilon == 2

\* The filters of the light curve: the identifier, its place in the
\* lexicographic order of the identifiers (the order np.unique gives strings)
\* and its normalized wavelength lc[:,2]
DenseNames == {"Generic/Bessell.V", "Generic/Johnson.V", "SLOAN/SDSS.g",
               "SLOAN/SDSS.gprime"}
NameRank(f) ==
    CASE f = "Generic/Bessell.V" -> 1
      [] f = "Generic/Johnson.V" -> 2
      [] f = "SLOAN/SDSS.g" -> 3
      [] f = "SLOAN/SDSS.gprime" -> 4
NormWv(f) ==
    CASE f = "Generic/Bessell.V" -> 15280
      [] f = "Generic/Johnson.V" -> 15280
      [] f = "SLOAN/SDSS.g" -> 0
      [] f = "SLOAN/SDSS.gprime" -> 1
DenseTimes == {0, 1, 2}

\* np.unique of numbers: the distinct values, ascending
RECURSIVE Unique(_)
Unique(S) == IF S = {} THEN <<>> ELSE <<MinOf(S)>> \o Unique(S \ {MinOf(S)})

\* np.unique of filter names: the distinct names, in lexicographic order
RECURSIVE UniqueNames(_)
UniqueNames(S) ==
    IF S = {} THEN <<>>
    ELSE LET f == CHOOSE x \in S : \A y \in S : NameRank(x) <= NameRank(y)
         IN <<f>> \o UniqueNames(S \ {f})

Abs(x) == IF x < 0 THEN 0 - x ELSE x

InitDense ==
    /\ pc = "interpolate"
    /\ \E rows \in SeqsOf([time : DenseTimes, name : DenseNames], 1, MaxObs) :
           obs = [j \in 1..Len(rows) |->
                    [time |-> rows[j].time, filt |-> NormWv(rows[j].name),
                     name |-> rows[j].name]]
    /\ dense = <<>>
    /\ table_header = <<>>

\* ufilts = np.unique(lc[:,2]) (line 386)
Ufilts == Unique({obs[j].filt : j \in 1..Len(obs)})

\* x_pred (lines 389, 438-440): row (jj*nfilts + k) is (time of row jj, ufilts[k])
XPred ==
    LET nfilts == Len(Ufilts)
    IN [i \in 1..(Len(obs) * nfilts) |->
          <<obs[((i - 1) \div nfilts) + 1].time, Ufilts[((i - 1) % nfilts) + 1]>>]

\* np.where(np.abs(x_pred[:, 1]-ufilts[jj])<epsilon)[0] (line 446)
GindOf(jj) ==
    SelectSeq(Indices(XPred), LAMBDA i : Abs(XPred[i][2] - Ufilts[jj]) < epsilon)

\* lines 386-451.  dense_fluxes[:, jj] = pred[gind] raises ValueError when
\* gind does not hold one index per row of lc.
Interpolate ==
    /\ pc = "interpolate"
    /\ LET nfilts == Len(Ufilts)
       IN IF \E jj \in 1..nfilts : Len(GindOf(jj)) # Len(obs)
          THEN /\ pc' = "interpolate_raised"
               /\ UNCHANGED dense
          ELSE /\ pc' = "dense"
               /\ dense' = [j \in 1..Len(obs) |->
                              [jj \in 1..nfilts |-> XPred[GindOf(jj)[j]]]]
    /\ UNCHANGED <<obs, table_header>>
    /\ UNCHANGED <<photVars, distVars, bbVars, ftVars,
                   tmplVars, selVars>>

\* the header of lines 693-698, in the order np.unique gives the names
HeaderOf == UniqueNames({obs[j].name : j \in 1..Len(obs)})

\* main, line 818, and write_output, lines 686-706: my_filters is the
\* per-row list of names; the table has one column pair per column of
\* dense_lc, and Table raises when the names do not count the same
WriteOutput ==
    /\ pc = "dense"
    /\ IF Len(HeaderOf) # Len(dense[1])
       THEN /\ pc' = "write_output_raised"
            /\ UNCHANGED table_header
       ELSE /\ pc' = "written"
            /\ table_header' = HeaderOf
    /\ UNCHANGED <<obs, dense>>
    /\ UNCHANGED <<photVars, distVars, bbVars, ftVars,
                   tmplVars, selVars>>

NextDense ==
    \/ Interpolate
    \/ WriteOutput

InitDenseRun == InitDense /\ IdlePhot /\ IdleDist /\ IdleBB /\ IdleFt
                /\ IdleTmpl /\ IdleSel

SpecDense == InitDenseRun /\ [][NextDense]_vars

\* C3 as stated: the output table has one row per observation epoch, and the
\* column pair headed by a filter's name holds the dense flux and
\* uncertainty predicted at that filter's wavelength: the header order is the
\* column order of the dense light curve.
C3_HeaderMatchesColumns ==
    pc = "written" =>
        /\ Len(dense) = Len(obs)
        /\ Len(table_header) = Len(dense[1])
        /\ \A j \in 1..Len(dense) : \A k \in 1..Len(table_header) :
               dense[j][k] = <<obs[j].time, NormWv(table_header[k])>>

\* C4 as stated: for every observation set, interpolate returns a dense light
\* curve of N rows and F columns, F the number of distinct wavelengths, and
\* cell (j, k) is the prediction at the time of observation j and the k-th
\* distinct wavelength.
C4_DenseGridComplete ==
    LET F == Cardinality({obs[j].filt : j \in 1..Len(obs)})
    IN /\ pc # "interpolate_raised"
       /\ pc \in {"dense", "written", "write_output_raised"} =>
              /\ Len(dense) = Len(obs)
              /\ \A j \in 1..Len(dense) :
                     /\ Len(dense[j]) = F
                     /\ \A k \in 1..F :
                            dense[j][k] = <<obs[j].time, Ufilts[k]>>

(***************************************************************************)
(* fit_bb (lines 454-513).  curve_fit is scipy's: what it does on an epoch *)
(* (return parameters and a covariance, or raise) is part of the input.    *)
(***************************************************************************)
\* The longest dense light curve
MaxEpochs == 3

\* a float that is a number, and the float that is not
Num(v) == [nan |-> FALSE, val |-> v]
NaN    == [nan |-> TRUE, val |-> 0]

\* what curve_fit does on one epoch: BBparams = (T, R) and the square roots
\* of the diagonal of covar, in units of 1000 K and 1e15 cm; R may come out
\* negative
FitOutcomes ==
    [raises : {TRUE}, T : {0}, R : {0}, Terr : {0}, Rerr : {0}]
    \cup [raises : {FALSE}, T : {9, 12}, R : {-2, 3}, Terr : {1}, Rerr : {2}]

InitBB ==
    /\ pc = "fit_bb"
    /\ dense_lc \in SeqsOf(FitOutcomes, 1, MaxEpochs)
    /\ i_bb = 0
    /\ bb_last = <<>>
    /\ T_arr = [i \in 1..Len(dense_lc) |-> Num(0)]
    /\ R_arr = [i \in 1..Len(dense_lc) |-> Num(0)]
    /\ Terr_arr = [i \in 1..Len(dense_lc) |-> Num(0)]
    /\ Rerr_arr = [i \in 1..Len(dense_lc) |-> Num(0)]

\* lines 508-511, with T1, R1, T1_err, R1_err as given
StoreEpoch(T1, R1, T1_err, R1_err) ==
    /\ bb_last' = <<T1, R1, T1_err, R1_err>>
    /\ T_arr' = [T_arr EXCEPT ![i_bb + 1] = T1]
    /\ R_arr' = [R_arr EXCEPT ![i_bb + 1] = R1]
    /\ Terr_arr' = [Terr_arr EXCEPT ![i_bb + 1] = T1_err]
    /\ Rerr_arr' = [Rerr_arr EXCEPT ![i_bb + 1] = R1_err]
    /\ i_bb' = i_bb + 1

\* lines 494-501 and 508-511: the fit returns
FitEpochConverged ==
    /\ pc = "fit_bb"
    /\ i_bb < Len(dense_lc)
    /\ ~dense_lc[i_bb + 1].raises
    /\ LET o == dense_lc[i_bb + 1]
       IN StoreEpoch(Num(o.T), Num(Abs(o.R)), Num(o.Terr), Num(o.Rerr))
    /\ UNCHANGED <<pc, dense_lc>>
    /\ UNCHANGED <<photVars, distVars, denseVars, ftVars,
                   tmplVars, selVars>>

\* the except clause as "continue": nothing is stored for the epoch
FitEpochRaisedSkips ==
    /\ pc = "fit_bb"
    /\ i_bb < Len(dense_lc)
    /\ dense_lc[i_bb + 1].raises
    /\ i_bb' = i_bb + 1
    /\ UNCHANGED <<pc, dense_lc, bb_last, T_arr, R_arr, Terr_arr, Rerr_arr>>
    /\ UNCHANGED <<photVars, distVars, denseVars, ftVars,
                   tmplVars, selVars>>

\* lines 502-511: the fit raises, the except clause stores NaN
FitEpochRaised ==
    /\ pc = "fit_bb"
    /\ i_bb < Len(dense_lc)
    /\ dense_lc[i_bb + 1].raises
    /\ StoreEpoch(NaN, NaN, NaN, NaN)
    /\ UNCHANGED <<pc, dense_lc>>
    /\ UNCHANGED <<photVars, distVars, denseVars, ftVars,
                   tmplVars, selVars>>

\* line 513
ReturnBB ==
    /\ pc = "fit_bb"
    /\ i_bb = Len(dense_lc)
    /\ pc' = "fit_bb_returned"
    /\ UNCHANGED <<photVars, distVars, denseVars, bbVars, ftVars,
                   tmplVars, selVars>>

NextBB ==
    \/ FitEpochConverged
    \/ FitEpochRaised
    \/ ReturnBB

InitBBRun == InitBB /\ IdlePhot /\ IdleDist /\ IdleDense /\ IdleFt
             /\ IdleTmpl /\ IdleSel

SpecBB == InitBBRun /\ [][NextBB]_vars

\* C5: whichever epochs' fits raise, the loop goes on to every epoch (a raise
\* never stops it), and at the return the four arrays have one entry per
\* epoch: NaN in all four for an epoch whose fit raised, and for every other
\* epoch the fitted T, |R| and their errors, whatever happened to the rest.
C5_FailedEpochsAreNaN ==
    /\ pc = "fit_bb" => ENABLED NextBB
    /\ pc = "fit_bb_returned" =>
           /\ i_bb = Len(dense_lc)
           /\ Len(T_arr) = Len(dense_lc) /\ Len(R_arr) = Len(dense_lc)
           /\ Len(Terr_arr) = Len(dense_lc) /\ Len(Rerr_arr) = Len(dense_lc)
           /\ \A i \in 1..Len(dense_lc) :
                  IF dense_lc[i].raises
                  THEN /\ T_arr[i].nan /\ R_arr[i].nan
                       /\ Terr_arr[i].nan /\ Rerr_arr[i].nan
                  ELSE /\ T_arr[i] = [nan |-> FALSE, val |-> dense_lc[i].T]
                       /\ R_arr[i] = [nan |-> FALSE,
                                      val |-> IF dense_lc[i].R < 0
                                              THEN 0 - dense_lc[i].R
                                              ELSE dense_lc[i].R]
                       /\ Terr_arr[i] = [nan |-> FALSE, val |-> dense_lc[i].Terr]
                       /\ Rerr_arr[i] = [nan |-> FALSE, val |-> dense_lc[i].Rerr]

\* the loop has returned after a fit that raised between two that did not
C5_Witness ==
    /\ pc = "fit_bb_returned"
    /\ \E i \in 2..(Len(dense_lc) - 1) :
           /\ dense_lc[i].raises
           /\ ~dense_lc[i - 1].raises /\ ~dense_lc[i + 1].raises
           /\ T_arr[i].nan /\ ~T_arr[i + 1].nan

(***************************************************************************)
(* fit_template (lines 244-326) and chi_square (lines 56-61).  curve_fit   *)
(* is scipy's: the parameters it returns for a filter are any point of a   *)
(* small grid.  The template interpolant is a table.  Wavelengths are in   *)
(* Angstrom, the normalized ones relative to wv_corr; chi-squares are      *)
(* kept multiplied by 4, the uncertainties being 1 or 2.                   *)
(***************************************************************************)
\* The longest light curve handed to fit_template
MaxFtObs == 2

\* wv_corr as read_in_photometry returned it: the mean of the two wavelengths
FtWvCorr == (4378 + 5466) \div 2

FtTimes  == {0, 2}
FtFluxes == {20, 21}
FtErrs   == {1, 2}
FtFilts  == {-544, 544}
\* what curve_fit may return: (A, t_c, t_s), t_s bounded below by 0
ParamGrid == {<<A, t_c, t_s>> : A \in {19, 20}, t_c \in {0, 1}, t_s \in {1, 2}}

\* template_to_fit(t, wavelength): the spline of generate_template
template_to_fit(t, w) ==
    IF w = 4378 THEN <<0, 2, 1, 0>>[t + 1] ELSE <<1, 0, 3, 2>>[t + 1]

InitFt ==
    /\ pc = "fit_template"
    /\ ft_obs \in SeqsOf([time : FtTimes, flux : FtFluxes, err : FtErrs,
                          filt : FtFilts], 1, MaxFtObs)
    /\ k_ft = 0
    /\ A_opt = <<>> /\ t_c_opt = <<>> /\ t_s_opt = <<>> /\ chi2 = <<>>
    /\ ft_ret = <<>>

\* wv: ufilts_in_angstrom = np.unique(lc[:,2]) * 1000.0 + wv_corr (lines 348-349,
\* 386-387)
FtWv == LET u == Unique({ft_obs[i].filt : i \in 1..Len(ft_obs)})
        IN [k \in 1..Len(u) |-> u[k] + FtWvCorr]

\* chi_square (lines 56-61), times 4
RECURSIVE chi_square(_, _, _)
chi_square(dat, model, uncertainty) ==
    IF dat = <<>> THEN 0
    ELSE ((model[1] - dat[1]) * (model[1] - dat[1]) * 4)
             \div (uncertainty[1] * uncertainty[1])
         + chi_square(Tail(dat), Tail(model), Tail(uncertainty))

\* model (lines 279-284): the template at the sorted, stretched and shifted times
Model(time, filt, A, t_c, t_s) ==
    LET time_sorted == SortSeq(time, LAMBDA a, b : a < b)
    IN [i \in 1..Len(time) |->
          template_to_fit((time_sorted[i] \div t_s) + t_c, filt) + A]

\* gis = np.where(filts * 1000 + wv_corr == wavelength) (line 291)
FtGis(wavelength) ==
    SelectSeq(Indices(ft_obs), LAMBDA i : ft_obs[i].filt + FtWvCorr = wavelength)

\* lines 300-304: the chi-square of one candidate's parameters popt, the
\* candidate's data being dat_times, dat_fluxes, dat_errs
ParamChi(popt, dat_times, dat_fluxes, dat_errs) ==
    LET RECURSIVE Over(_)
        Over(n) ==
            IF n = 0 THEN 0
            ELSE Over(n - 1)
                 + chi_square(dat_fluxes,
                              Model(dat_times, FtWv[n], popt[1], popt[2], popt[3]),
                              dat_errs)
    IN Over(Len(FtWv))

\* lines 276-304: one pass of the loop over wv
FitCandidate ==
    /\ pc = "fit_template"
    /\ k_ft < Len(FtWv)
    /\ LET gis == FtGis(FtWv[k_ft + 1])
           dat_fluxes == [i \in 1..Len(gis) |-> ft_obs[gis[i]].flux]
           dat_times  == [i \in 1..Len(gis) |-> ft_obs[gis[i]].time]
           dat_errs   == [i \in 1..Len(gis) |-> ft_obs[gis[i]].err]
       IN \E popt \in ParamGrid :
              /\ A_opt' = Append(A_opt, popt[1])
              /\ t_c_opt' = Append(t_c_opt, popt[2])
              /\ t_s_opt' = Append(t_s_opt, popt[3])
              /\ chi2' = Append(chi2, ParamChi(popt, dat_times, dat_fluxes, dat_errs))
    /\ k_ft' = k_ft + 1
    /\ UNCHANGED <<pc, ft_obs, ft_ret>>
    /\ UNCHANGED <<photVars, distVars, denseVars, bbVars,
                   tmplVars, selVars>>

\* np.argmin: the first index of the smallest element
ArgMin(a) == CHOOSE g \in 1..Len(a) :
                 /\ \A j \in 1..Len(a) : a[g] <= a[j]
                 /\ \A j \in 1..(g - 1) : a[j] > a[g]

\* lines 306-326
ReturnFit ==
    /\ pc = "fit_template"
    /\ k_ft = Len(FtWv)
    /\ LET gi == ArgMin(chi2)
       IN ft_ret' = <<A_opt[gi], t_c_opt[gi], t_s_opt[gi], chi2[gi]>>
    /\ pc' = "fit_template_returned"
    /\ UNCHANGED <<ft_obs, k_ft, A_opt, t_c_opt, t_s_opt, chi2>>
    /\ UNCHANGED <<photVars, distVars, denseVars, bbVars,
                   tmplVars, selVars>>

NextFt ==
    \/ FitCandidate
    \/ ReturnFit

InitFtRun == InitFt /\ IdlePhot /\ IdleDist /\ IdleDense /\ IdleBB
             /\ IdleTmpl /\ IdleSel

SpecFt == InitFtRun /\ [][NextFt]_vars

\* C6 as stated: the chi-square kept for candidate filter f is the sum, over
\* every filter g present, of chi_square between g's own fluxes and
\* uncertainties and the template at g's wavelength and g's own times under
\* f's fitted (A, t_c, t_s); and the returned parameters are those of the
\* candidate whose chi-square is smallest.
C6_AggregateChiSquare ==
    LET timesOf(g)  == [i \in 1..Len(FtGis(g)) |-> ft_obs[FtGis(g)[i]].time]
        fluxesOf(g) == [i \in 1..Len(FtGis(g)) |-> ft_obs[FtGis(g)[i]].flux]
        errsOf(g)   == [i \in 1..Len(FtGis(g)) |-> ft_obs[FtGis(g)[i]].err]
        RECURSIVE Agg(_, _)
        Agg(f, n) ==
            IF n = 0 THEN 0
            ELSE Agg(f, n - 1)
                 + chi_square(fluxesOf(FtWv[n]),
                              Model(timesOf(FtWv[n]), FtWv[n],
                                    A_opt[f], t_c_opt[f], t_s_opt[f]),
                              errsOf(FtWv[n]))
    IN /\ \A f \in 1..Len(chi2) : chi2[f] = Agg(f, Len(FtWv))
       /\ pc = "fit_template_returned" =>
              \E f \in 1..Len(chi2) :
                  /\ \A j \in 1..Len(chi2) : chi2[f] <= chi2[j]
                  /\ ft_ret = <<A_opt[f], t_c_opt[f], t_s_opt[f], chi2[f]>>

\* C14 as stated: whatever the order of the rows, the i-th model value is
\* the template at the time of the i-th observation of the candidate's data,
\* so the chi-square kept for a candidate is the sum, over every wavelength
\* of wv, of the residuals between the template at each observation's own
\* time and that same observation's flux and uncertainty.
C14_ResidualsPairSameObservation ==
    \A f \in 1..Len(chi2) :
        LET gis == FtGis(FtWv[f])
            own(i, filt) ==
                template_to_fit((ft_obs[gis[i]].time \div t_s_opt[f]) + t_c_opt[f], filt)
                    + A_opt[f]
            RECURSIVE Paired(_)
            Paired(n) ==
                IF n = 0 THEN 0
                ELSE Paired(n - 1)
                     + chi_square([i \in 1..Len(gis) |-> ft_obs[gis[i]].flux],
                                  [i \in 1..Len(gis) |-> own(i, FtWv[n])],
                                  [i \in 1..Len(gis) |-> ft_obs[gis[i]].err])
        IN chi2[f] = Paired(Len(FtWv))

(***************************************************************************)
(* generate_template (lines 170-241).  The template file holds one sample  *)
(* per line of three parallel arrays; times in days, wavelengths in        *)
(* Angstrom.  RectBivariateSpline is scipy's: with its default cubic       *)
(* degree it raises unless each axis has more points than the degree.      *)
(***************************************************************************)
\* the degree kx = ky of RectBivariateSpline as line 239 calls it
SplineDegree == 3

\* The times and wavelengths of the template file, and the filter
\* wavelengths the template may be wanted for
TmplTimes       == {0, 2, 3, 4, 6, 8}
TmplWavelengths == {4360, 4380, 4390, 4400, 4420, 4440, 4460}
FilterWvs       == {<<4378, 5466>>, <<4360, 4460>>, <<4400>>}

\* template['f_lambda'] at one sample
FLambdaAt(t, w) == 10 * (w - 4300) + t + 1

\* the samples of a set of (time, wavelength) pairs, time-major and ascending
RECURSIVE SamplesOf(_)
SamplesOf(P) ==
    IF P = {} THEN <<>>
    ELSE LET p == CHOOSE x \in P :
                      \A y \in P : x[1] < y[1] \/ (x[1] = y[1] /\ x[2] <= y[2])
         IN <<[time |-> p[1], wavelength |-> p[2], f_lambda |-> FLambdaAt(p[1], p[2])]>>
            \o SamplesOf(P \ {p})

\* the file is a full grid except at one time, where any of the wavelengths
\* may be missing
InitTmpl ==
    /\ pc = "generate_template"
    /\ \E t \in TmplTimes, present \in SUBSET TmplWavelengths :
           template = SamplesOf({q \in TmplTimes \X TmplWavelengths :
                                     q[1] # t \/ q[2] \in present})
    /\ filter_wv \in FilterWvs
    /\ temp_times = [i \in 1..Len(template) |-> template[i].time]
    /\ temp_wavelength = [i \in 1..Len(template) |-> template[i].wavelength]
    /\ temp_f_lambda = [i \in 1..Len(template) |-> template[i].f_lambda]
    /\ temp_f_lambda_u = <<>>

\* the three arrays indexed by the same gis (lines 196-198, 205-207, 214-216,
\* 223-225)
KeepSamples(gis) ==
    /\ temp_times' = Take(temp_times, gis)
    /\ temp_wavelength' = Take(temp_wavelength, gis)
    /\ temp_f_lambda' = Take(temp_f_lambda, gis)

\* line 194: inside the span of the filter wavelengths
InSpan(w, fwv) == w < MaxOf(Range(fwv)) /\ w > MinOf(Range(fwv))

\* lines 190-198
ChopEnds ==
    /\ pc = "generate_template"
    /\ KeepSamples(SelectSeq(Indices(temp_wavelength),
                             LAMBDA i : InSpan(temp_wavelength[i], filter_wv)))
    /\ pc' = "every_other_time"
    /\ UNCHANGED <<template, filter_wv, temp_f_lambda_u>>
    /\ UNCHANGED <<photVars, distVars, denseVars, bbVars, ftVars, selVars>>

\* lines 200-207
RemoveEveryOtherTime ==
    /\ pc = "every_other_time"
    /\ KeepSamples(SelectSeq(Indices(temp_times), LAMBDA i : temp_times[i] % 2 = 0))
    /\ pc' = "every_other_wavelength"
    /\ UNCHANGED <<template, filter_wv, temp_f_lambda_u>>
    /\ UNCHANGED <<photVars, distVars, denseVars, bbVars, ftVars, selVars>>

\* lines 209-216
RemoveEveryOtherWavelength ==
    /\ pc = "every_other_wavelength"
    /\ KeepSamples(SelectSeq(Indices(temp_wavelength),
                             LAMBDA i : temp_wavelength[i] % 20 = 0))
    /\ pc' = "initial_rise"
    /\ UNCHANGED <<template, filter_wv, temp_f_lambda_u>>
    /\ UNCHANGED <<photVars, distVars, denseVars, bbVars, ftVars, selVars>>

\* lines 218-225
RemoveInitialRise ==
    /\ pc = "initial_rise"
    /\ KeepSamples(SelectSeq(Indices(temp_times), LAMBDA i : temp_times[i] >= 1))
    /\ pc' = "grid"
    /\ UNCHANGED <<template, filter_wv, temp_f_lambda_u>>
    /\ UNCHANGED <<photVars, distVars, denseVars, bbVars, ftVars, selVars>>

\* lines 228-229
temp_times_u      == Unique(Range(temp_times))
temp_wavelength_u == Unique(Range(temp_wavelength))

\* gis = np.where(temp_times == temp_times_u[i]) (line 232)
GisAtTime(t) == SelectSeq(Indices(temp_times), LAMBDA i : temp_times[i] = t)

\* lines 230-233.  temp_f_lambda_u[i,:] = temp_f_lambda[gis] assigns a row of
\* len(temp_wavelength_u) cells: numpy takes as many values, or one value
\* which it repeats along the row, and raises ValueError for any other count
BuildGrid ==
    /\ pc = "grid"
    /\ LET W == Len(temp_wavelength_u)
           count(i) == Len(GisAtTime(temp_times_u[i]))
       IN IF \E i \in 1..Len(temp_times_u) : count(i) # W /\ count(i) # 1
          THEN /\ pc' = "grid_raised"
               /\ UNCHANGED temp_f_lambda_u
          ELSE /\ pc' = "log"
               /\ temp_f_lambda_u' =
                      [i \in 1..Len(temp_times_u) |->
                          [k \in 1..W |->
                              IF count(i) = W
                              THEN temp_f_lambda[GisAtTime(temp_times_u[i])[k]]
                              ELSE temp_f_lambda[GisAtTime(temp_times_u[i])[1]]]]
    /\ UNCHANGED <<template, filter_wv, temp_times, temp_wavelength, temp_f_lambda>>
    /\ UNCHANGED <<photVars, distVars, denseVars, bbVars, ftVars, selVars>>

\* 2.5 * np.log10((wv**2) * f) (line 237), kept as the pair it is taken of
Log25(wv, f) == <<wv, f>>

\* lines 234-237
ConvertToLog ==
    /\ pc = "log"
    /\ temp_f_lambda_u' =
           [i \in 1..Len(temp_f_lambda_u) |->
               [k \in 1..Len(temp_f_lambda_u[i]) |->
                   Log25(temp_wavelength_u[k], temp_f_lambda_u[i][k])]]
    /\ pc' = "spline"
    /\ UNCHANGED <<template, filter_wv, temp_times, temp_wavelength, temp_f_lambda>>
    /\ UNCHANGED <<photVars, distVars, denseVars, bbVars, ftVars, selVars>>

\* lines 239-241
MakeSpline ==
    /\ pc = "spline"
    /\ pc' = IF Len(temp_times_u) > SplineDegree /\ Len(temp_wavelength_u) > SplineDegree
             THEN "template_returned"
             ELSE "spline_raised"
    /\ UNCHANGED <<tmplVars, photVars, distVars, denseVars, bbVars, ftVars, selVars>>

NextTmpl ==
    \/ ChopEnds
    \/ RemoveEveryOtherTime
    \/ RemoveEveryOtherWavelength
    \/ RemoveInitialRise
    \/ BuildGrid
    \/ ConvertToLog
    \/ MakeSpline

InitTmplRun == InitTmpl /\ IdlePhot /\ IdleDist /\ IdleDense /\ IdleBB /\ IdleFt
               /\ IdleSel

SpecTmpl == InitTmplRun /\ [][NextTmpl]_vars

\* C11 as stated: when the decimated samples do not cover every pair of a
\* unique time and a unique wavelength, generate_template raises: it returns
\* an interpolant only for samples that form the full rectangular grid.
C11_RaggedGridRaises ==
    pc = "template_returned" =>
        \A t \in Range(temp_times), w \in Range(temp_wavelength) :
            \E i \in 1..Len(temp_times) :
                temp_times[i] = t /\ temp_wavelength[i] = w

\* C12 as stated: after the wavelength-span filter the three arrays hold
\* exactly the samples of the file whose wavelength is in the closed interval
\* [min(filter_wv), max(filter_wv)], in file order.
C12_SpanFilterClosed ==
    pc = "every_other_time" =>
        LET lo == CHOOSE x \in Range(filter_wv) : \A y \in Range(filter_wv) : x <= y
            hi == CHOOSE x \in Range(filter_wv) : \A y \in Range(filter_wv) : x >= y
            kept == SelectSeq(template,
                              LAMBDA r : r.wavelength >= lo /\ r.wavelength <= hi)
        IN /\ temp_times = [i \in 1..Len(kept) |-> kept[i].time]
           /\ temp_wavelength = [i \in 1..Len(kept) |-> kept[i].wavelength]
           /\ temp_f_lambda = [i \in 1..Len(kept) |-> kept[i].f_lambda]

(***************************************************************************)
(* main's template selector (lines 716-717, 745-751, 787-791), test        *)
(* (lines 328-361) and the mean function interpolate builds (lines         *)
(* 378-381, 416-420).  Strings are sequences of characters, so that int()  *)
(* parses them; the chi-square fit_template returns for a class is an      *)
(* input here.                                                             *)
(***************************************************************************)
DigitChars == <<"0", "1", "2", "3", "4", "5", "6", "7", "8", "9">>
IsDigit(c) == \E i \in 1..Len(DigitChars) : DigitChars[i] = c
DigitVal(c) == (CHOOSE i \in 1..Len(DigitChars) : DigitChars[i] = c) - 1

\* int(s) of line 747: a run of decimal digits parses, anything else raises
\* ValueError
IntParses(s) == Len(s) > 0 /\ \A i \in 1..Len(s) : IsDigit(s[i])

RECURSIVE IntOf(_)
IntOf(s) == IF s = <<>> THEN 0
            ELSE 10 * IntOf(SubSeq(s, 1, Len(s) - 1)) + DigitVal(s[Len(s)])

\* templates of line 351, and the keyword of line 787
templates == << <<"1", "a">>, <<"1", "b", "c">>, <<"2", "p">>, <<"2", "l">> >>
TestWord  == <<"t", "e", "s", "t">>
AutoWord  == <<"a", "u", "t", "o">>

\* the smoothed_sn<class>.npz files np.load finds (line 185): those of the
\* classes the program and its help text name
TemplateFiles == Range(templates)

\* what -m may be given as
MeanArgs == Range(templates) \cup {<<"0">>, <<"1">>, <<"1", "0">>, TestWord, AutoWord}

\* the chi-squares fit_template may return for the four classes
Chi2Vals == {1, 2, 3}

InitSel ==
    /\ pc = "parse_mean"
    /\ mean_arg \in MeanArgs
    /\ class_chi2 \in [1..Len(templates) -> Chi2Vals]
    /\ sn_type = <<>>
    /\ mean = FALSE
    /\ loaded = <<>>
    /\ gp_mean = <<>>

\* sn_type holds an int or a str
IntType(n) == [isint |-> TRUE, num |-> n, text |-> <<>>]
StrType(s) == [isint |-> FALSE, num |-> 0, text |-> s]

\* lines 745-751
ParseMean ==
    /\ pc = "parse_mean"
    /\ IF IntParses(mean_arg)
       THEN sn_type' = IntType(IntOf(mean_arg)) /\ mean' = FALSE
       ELSE sn_type' = StrType(mean_arg) /\ mean' = TRUE
    /\ pc' = "select_template"
    /\ UNCHANGED <<mean_arg, class_chi2, loaded, gp_mean>>
    /\ UNCHANGED <<photVars, distVars, denseVars, bbVars, ftVars, tmplVars>>

\* test picks the last class, whatever the chi-squares
best_temp_last(chi2s) == templates[Len(templates)]

\* lines 357-361 of test
best_temp(chi2s) == templates[ArgMin(chi2s)]

\* lines 787-788 with sn_type == 'test': test loads and fits every class of
\* templates and returns the best one
RunTest ==
    /\ pc = "select_template"
    /\ sn_type = StrType(TestWord)
    /\ loaded' = loaded \o templates
    /\ sn_type' = StrType(best_temp(class_chi2))
    /\ pc' = "interpolate"
    /\ UNCHANGED <<mean_arg, mean, class_chi2, gp_mean>>
    /\ UNCHANGED <<photVars, distVars, denseVars, bbVars, ftVars, tmplVars>>

\* line 787 with any other sn_type
KeepType ==
    /\ pc = "select_template"
    /\ sn_type # StrType(TestWord)
    /\ pc' = "interpolate"
    /\ UNCHANGED <<selVars, photVars, distVars, denseVars, bbVars, ftVars, tmplVars>>

\* line 791 into interpolate: lines 378-381 load and fit the template when
\* use_mean is True, lines 417-420 hand george.GP the mean
BuildMean ==
    /\ pc = "interpolate"
    /\ IF mean
       THEN IF sn_type.text \in TemplateFiles
            THEN /\ loaded' = Append(loaded, sn_type.text)
                 /\ gp_mean' = [use_mean |-> TRUE, template |-> sn_type.text]
                 /\ pc' = "gp"
            ELSE /\ pc' = "load_raised"
                 /\ UNCHANGED <<loaded, gp_mean>>
       ELSE /\ gp_mean' = [use_mean |-> FALSE, template |-> <<>>]
            /\ pc' = "gp"
            /\ UNCHANGED loaded
    /\ UNCHANGED <<mean_arg, sn_type, mean, class_chi2>>
    /\ UNCHANGED <<photVars, distVars, denseVars, bbVars, ftVars, tmplVars>>

NextSel ==
    \/ ParseMean
    \/ RunTest
    \/ KeepType
    \/ BuildMean

InitSelRun == InitSel /\ IdlePhot /\ IdleDist /\ IdleDense /\ IdleBB /\ IdleFt
              /\ IdleTmpl

SpecSel == InitSelRun /\ [][NextSel]_vars

\* the class at index g has the lowest chi-square, and is the first such
IsLowest(g) ==
    /\ \A j \in 1..Len(templates) : class_chi2[g] <= class_chi2[j]
    /\ \A j \in 1..(g - 1) : class_chi2[j] > class_chi2[g]

\* the three-way dispatch, with word as the selector of the class search
Dispatch(word) ==
    pc \in {"gp", "load_raised"} =>
        /\ mean_arg = <<"0">> =>
               /\ pc = "gp"
               /\ gp_mean = [use_mean |-> FALSE, template |-> <<>>]
               /\ loaded = <<>>
        /\ mean_arg \in Range(templates) =>
               /\ pc = "gp"
               /\ gp_mean = [use_mean |-> TRUE, template |-> mean_arg]
               /\ loaded = <<mean_arg>>
        /\ mean_arg = word =>
               /\ pc = "gp"
               /\ \E g \in 1..Len(templates) :
                      /\ IsLowest(g)
                      /\ gp_mean = [use_mean |-> TRUE, template |-> templates[g]]
                      /\ loaded = templates \o <<templates[g]>>

\* C13, amended: "0" gives the GP a zero mean and loads no template; a class
\* tag gives the GP that class's template as mean; "test" loads and fits
\* every class and gives the GP the template of the (first) class with the
\* lowest chi-square.
C13_SelectorDispatch == Dispatch(TestWord)

\* C13 as stated: the same dispatch with "auto" as the selector that runs
\* the class search.
C13_AutoRunsClassSearch == Dispatch(AutoWord)

\* the class search has run and picked a class that is not the first of the
\* list, nor the last
C13_Witness ==
    /\ pc = "gp"
    /\ mean_arg = TestWord
    /\ gp_mean = [use_mean |-> TRUE, template |-> templates[2]]
    /\ loaded = templates \o <<templates[2]>>

====
